---- MODULE Spec2Model ----
(* Model of MCPMailTool (src/mcp_mail.py): the two session slots, the      *)
(* retry loop shared by mail_read / mail_get / mail_send, the recipient    *)
(* check of mail_send, the message selection of mail_read and              *)
(* close_connections.  The IMAP/SMTP libraries are the environment: every  *)
(* library call either returns or raises, chosen nondeterministically.     *)
(* Body extraction (extract_body_summary / extract_full_body) is a pure    *)
(* function of the message and is explored on its own in SpecBody.         *)
(* SpecCli is one run of main(): construct the tool, run the command named *)
(* on the command line, print, close.                                      *)
EXTENDS Integers, Sequences, FiniteSets, TLC

VARIABLES
    retry_count,   \* self.config.get('retry_count', 3)
    retry_delay,   \* self.config.get('retry_delay', 2)
    imap_conn,     \* self.imap_conn : the IMAP session slot
    smtp_conn,     \* self.smtp_conn : the SMTP session slot
    dropped,       \* sessions opened, never logged out/quit, no longer referenced
    pc,            \* position of the running call: idle, loop, body, except
    op,            \* the operation being run (or last run)
    attempt,       \* loop variable of `for attempt in range(retry_count)`
    limit,         \* argument of mail_read
    to,            \* argument of mail_send
    err,           \* str(e) of the exception being handled
    result,        \* what the last call returned
    obs,           \* what the environment observed during the current call
    email_message, \* the message handed to body extraction
    max_length,    \* argument of extract_body_summary
    body_summary,  \* what extract_body_summary returned
    full_body,     \* what extract_full_body returned
    cli,           \* position of main(): start, dispatch, call, finally, exit
    argv,          \* sys.argv: the command named and len(sys.argv)
    tool,          \* 'tool' in locals()
    path           \* how main() left its try block

toolVars == <<retry_count, retry_delay, imap_conn, smtp_conn, dropped, pc, op,
              attempt, limit, to, err, result, obs>>
bodyVars == <<email_message, max_length, body_summary, full_body>>
cliVars == <<cli, argv, tool, path>>
vars == <<toolVars, bodyVars, cliVars>>

----------------------------------------------------------------------------
(* Bounds *)
MaxRetry == 3
MaxMsgs == 3
MaxLimit == 3
MaxToLen == 2
MaxDropped == 0
MaxBodyLen == 4
MaxParts == 2
MaxLength == 2

Delays == {0, 2}
Chars == {"a", "@", "."}

----------------------------------------------------------------------------
(* Session slots.  A slot is None or holds one session handle; the handle  *)
(* records whether login succeeded on it and whether a failed attempt has  *)
(* already used it.                                                         *)
None == [present |-> FALSE, authed |-> FALSE, failed |-> FALSE]
Session(a) == [present |-> TRUE, authed |-> a, failed |-> FALSE]

\* an attempt that raised has used the session now in the slot (if any)
MarkFailed(conn) == IF conn.present THEN [conn EXCEPT !.failed = TRUE] ELSE conn

----------------------------------------------------------------------------
(* Results *)
NoResult == [kind |-> "pending", error |-> "", emails |-> <<>>, count |-> 0]
ReturnedNone == [kind |-> "None", error |-> "", emails |-> <<>>, count |-> 0]
Success(emails) == [kind |-> "success", error |-> "", emails |-> emails, count |-> Len(emails)]
Failure(e) == [kind |-> "failure", error |-> e, emails |-> <<>>, count |-> 0]

NoObs == [attempts |-> 0, failed |-> 0, sleeps |-> <<>>, connects |-> 0, sendmails |-> 0,
          fetches |-> 0, message_ids |-> <<>>, outcomes |-> <<>>,
          releases |-> 0, cause |-> ""]

----------------------------------------------------------------------------
(* Pure helpers, computed as Python computes them *)

\* c in s
Contains(s, c) == \E i \in 1..Len(s) : s[i] = c

RECURSIVE SplitFrom(_, _, _, _)
\* s.split(c): cur is the piece being collected, i the next index to read
SplitFrom(s, c, i, cur) ==
    IF i > Len(s) THEN <<cur>>
    ELSE IF s[i] = c THEN <<cur>> \o SplitFrom(s, c, i + 1, <<>>)
    ELSE SplitFrom(s, c, i + 1, Append(cur, s[i]))

Split(s, c) == SplitFrom(s, c, 1, <<>>)

\* variant that only looks for the '@'
invalid_email_format_at_only(addr) == ~Contains(addr, "@")

\* the recipient check of mail_send: '@' not in to or '.' not in to.split('@')[1]
\* (Python index 1 is the second piece; `or` short-circuits)
invalid_email_format(addr) ==
    IF ~Contains(addr, "@") THEN TRUE ELSE ~Contains(Split(addr, "@")[2], ".")

\* seq[start:] with Python's rules for a negative or oversized start
PySliceFrom(seq, start) ==
    LET n == Len(seq)
        lo == IF start < 0 THEN (IF n + start < 0 THEN 0 ELSE n + start)
              ELSE (IF start > n THEN n ELSE start)
    IN  SubSeq(seq, lo + 1, n)

\* list.reverse()
Reverse(seq) == [i \in 1..Len(seq) |-> seq[Len(seq) + 1 - i]]

\* message_ids[-limit:] if len(message_ids) >= limit else message_ids; then reverse()
latest_ids(message_ids, lim) ==
    Reverse(IF Len(message_ids) >= lim THEN PySliceFrom(message_ids, 0 - lim)
            ELSE message_ids)

RECURSIVE fetch_loop_break(_, _, _, _)
\* variant of the loop that stops at the first message that fails
fetch_loop_break(ids, outs, i, emails) ==
    IF i > Len(ids) THEN emails
    ELSE IF outs[i] = "OK" THEN fetch_loop_break(ids, outs, i + 1, Append(emails, ids[i]))
    ELSE emails

RECURSIVE fetch_loop(_, _, _, _)
\* for msg_id in latest_ids: fetch; a non-OK status or an exception skips the
\* message (continue), otherwise its summary is appended.  A summary is
\* represented by the id it carries.
fetch_loop(ids, outs, i, emails) ==
    IF i > Len(ids) THEN emails
    ELSE IF outs[i] = "OK" THEN fetch_loop(ids, outs, i + 1, Append(emails, ids[i]))
    ELSE fetch_loop(ids, outs, i + 1, emails)

\* variant with the comparison off by one
HasRetriesLeft_off_by_one(a, rc) == a < rc

\* if attempt < retry_count - 1
HasRetriesLeft(a, rc) == a < rc - 1

\* variant that does not sleep
time_sleep_skipped(sleeps, d) == sleeps

\* time.sleep(retry_delay), as seen by the environment
time_sleep(sleeps, d) == Append(sleeps, d)

\* error classification of connect_imap
connect_imap_error(exc) ==
    IF exc = "IMAP4.error:authentication failed" THEN "AUTHENTICATION_FAILED"
    ELSE IF exc = "IMAP4.error" THEN "IMAP_CONNECTION_FAILED"
    ELSE "NETWORK_ERROR"

\* error classification of connect_smtp
connect_smtp_error(exc) ==
    IF exc = "SMTPAuthenticationError" THEN "AUTHENTICATION_FAILED"
    ELSE IF exc = "SMTPException" THEN "SMTP_CONNECTION_FAILED"
    ELSE "NETWORK_ERROR"

ImapExc == {"IMAP4.error:authentication failed", "IMAP4.error", "OSError"}
SmtpExc == {"SMTPAuthenticationError", "SMTPException", "OSError"}
Status == {"OK", "NO", "raise"}

RECURSIVE SeqsUpTo(_)
SeqsUpTo(n) == IF n = 0 THEN {<<>>}
               ELSE LET S == SeqsUpTo(n - 1)
                    IN  S \cup {Append(s, c) : s \in {t \in S : Len(t) = n - 1}, c \in Chars}
Recipients == SeqsUpTo(MaxToLen)

----------------------------------------------------------------------------
(* Body extraction.  A text is a sequence of characters.  A message is      *)
(* multipart or not; `parts` is what walk() yields after the container     *)
(* itself (whose content type is neither text/plain nor text/html), or the *)
(* message itself when it is not multipart.  charset_ok says whether       *)
(* bytes.decode(charset, errors='ignore') knows the declared charset.      *)

BodyChars == {"a", " ", "\n", "\r"}
Whitespace == {" ", "\n", "\r"}

\* the two placeholders, one element per character
NoBody == <<"wu", "zheng", "wen", "nei", "rong">>
ParseFailed == <<"zheng", "wen", "jie", "xi", "shi", "bai">>
Ellipsis == <<".", ".", ".">>

RECURSIVE lstrip(_)
lstrip(s) == IF s # <<>> /\ Head(s) \in Whitespace THEN lstrip(Tail(s)) ELSE s

RECURSIVE rstrip(_)
rstrip(s) == IF s # <<>> /\ s[Len(s)] \in Whitespace
             THEN rstrip(SubSeq(s, 1, Len(s) - 1)) ELSE s

\* str.strip()
strip(s) == rstrip(lstrip(s))

\* str.replace(old, new) for a single character
replace(s, old, new) == [i \in 1..Len(s) |-> IF s[i] = old THEN new ELSE s[i]]

\* s[:n]
Prefix(s, n) == SubSeq(s, 1, IF n < Len(s) THEN n ELSE Len(s))

\* index of the first '>' at or after i, 0 if there is none
RECURSIVE FirstGt(_, _)
FirstGt(s, i) == IF i > Len(s) THEN 0 ELSE IF s[i] = ">" THEN i ELSE FirstGt(s, i + 1)

RECURSIVE re_sub_tags_from(_, _)
\* re.sub(r'<[^>]+>', '', s) from index i on: a match starts at a '<' that
\* is followed by at least one character other than '>' and then a '>'
re_sub_tags_from(s, i) ==
    IF i > Len(s) THEN <<>>
    ELSE LET j == FirstGt(s, i + 1)
         IN  IF s[i] = "<" /\ j >= i + 2
             THEN re_sub_tags_from(s, j + 1)
             ELSE <<s[i]>> \o re_sub_tags_from(s, i + 1)

re_sub_tags(s) == re_sub_tags_from(s, 1)

\* outcome of the try block before the clean-up: the text, or an exception
Body(text) == [raised |-> FALSE, body |-> text]
Raised == [raised |-> TRUE, body |-> <<>>]

\* part.get_payload(decode=True).decode(charset, errors='ignore')
decode_payload(part) == IF part.charset_ok THEN Body(part.payload) ELSE Raised

RECURSIVE summary_walk(_, _)
\* the loop over walk() of extract_body_summary: the first text/plain part
summary_walk(parts, i) ==
    IF i > Len(parts) THEN Body(<<>>)
    ELSE IF parts[i].content_type = "text/plain" THEN decode_payload(parts[i])
    ELSE summary_walk(parts, i + 1)

\* variant of the cut without the marker
truncate_unmarked(body, n) == IF Len(body) > n THEN Prefix(body, n) ELSE body

\* if len(body) > max_length: body = body[:max_length] + "..."
truncate(body, n) == IF Len(body) > n THEN Prefix(body, n) \o Ellipsis ELSE body

\* extract_body_summary(email_message, max_length)
extract_body_summary(msg, n) ==
    LET got == IF msg.multipart THEN summary_walk(msg.parts, 1) ELSE decode_payload(msg.parts[1])
    IN  IF got.raised THEN ParseFailed
        ELSE LET body == truncate(replace(replace(strip(got.body), "\n", " "), "\r", " "), n)
             IN  IF body = <<>> THEN NoBody ELSE body

RECURSIVE full_walk_html_wins(_, _, _)
\* variant in which a text/html part seen first ends the loop
full_walk_html_wins(parts, i, body) ==
    IF i > Len(parts) THEN Body(body)
    ELSE IF parts[i].content_type = "text/plain" THEN decode_payload(parts[i])
    ELSE IF parts[i].content_type = "text/html" /\ body = <<>>
         THEN IF parts[i].charset_ok
              THEN Body(re_sub_tags(parts[i].payload))
              ELSE Raised
    ELSE full_walk_html_wins(parts, i + 1, body)

RECURSIVE full_walk(_, _, _)
\* the loop over walk() of extract_full_body: the first text/plain part ends
\* it; a text/html part is used while body is still empty
full_walk(parts, i, body) ==
    IF i > Len(parts) THEN Body(body)
    ELSE IF parts[i].content_type = "text/plain" THEN decode_payload(parts[i])
    ELSE IF parts[i].content_type = "text/html" /\ body = <<>>
         THEN IF parts[i].charset_ok
              THEN full_walk(parts, i + 1, re_sub_tags(parts[i].payload))
              ELSE Raised
    ELSE full_walk(parts, i + 1, body)

\* extract_full_body(email_message)
extract_full_body(msg) ==
    LET got == IF msg.multipart THEN full_walk(msg.parts, 1, <<>>) ELSE decode_payload(msg.parts[1])
    IN  IF got.raised THEN ParseFailed
        ELSE IF strip(got.body) = <<>> THEN NoBody ELSE strip(got.body)

RECURSIVE TextsUpTo(_)
TextsUpTo(n) == IF n = 0 THEN {<<>>}
                ELSE LET S == TextsUpTo(n - 1)
                     IN  S \cup {Append(s, c) : s \in {t \in S : Len(t) = n - 1},
                                                c \in BodyChars}

\* payloads of the parts of a multipart message
PartTexts == {<<>>, <<" ">>, <<"a">>, <<"<", ">">>, <<"<", "a", ">">>,
              <<"<", "a", ">", "a", "\n">>}

Part(ct, text, ok) == [content_type |-> ct, payload |-> text, charset_ok |-> ok]

\* what walk() can yield after the container: text parts, and parts of any
\* other type (attachments, nested containers), which are never decoded
Parts ==
    {Part(ct, t, ok) : ct \in {"text/plain", "text/html"}, t \in PartTexts, ok \in BOOLEAN}
        \cup {Part("other", <<>>, TRUE)}

RECURSIVE PartSeqs(_)
PartSeqs(n) == IF n = 0 THEN {<<>>}
               ELSE LET S == PartSeqs(n - 1)
                    IN  S \cup {Append(s, q) : s \in {t \in S : Len(t) = n - 1}, q \in Parts}

Messages ==
    {[multipart |-> FALSE, parts |-> <<Part("text/plain", t, ok)>>] :
         t \in TextsUpTo(MaxBodyLen), ok \in BOOLEAN}
        \cup {[multipart |-> TRUE, parts |-> ps] : ps \in PartSeqs(MaxParts)}

NoMessage == [multipart |-> FALSE, parts |-> <<>>]
NotExtracted == <<"not extracted">>

\* the tool used as a library: main() is not running
NoArgv == [command |-> "none", argc |-> 0]

----------------------------------------------------------------------------
(* State after MCPMailTool.__init__ : both slots None, configuration read *)
Init ==
    /\ retry_count \in 0..MaxRetry
    /\ retry_delay \in Delays
    /\ imap_conn = None
    /\ smtp_conn = None
    /\ dropped = [imap |-> 0, smtp |-> 0]
    /\ pc = "idle"
    /\ op = "none"
    /\ attempt = 0
    /\ limit = 0
    /\ to = <<>>
    /\ err = ""
    /\ result = NoResult
    /\ obs = NoObs
    /\ email_message = NoMessage
    /\ max_length = 0
    /\ body_summary = NotExtracted
    /\ full_body = NotExtracted
    /\ cli = "library"
    /\ argv = NoArgv
    /\ tool = TRUE
    /\ path = ""

\* a new call may start when no call is running (the tool is used by one
\* thread); calls stop once more than MaxDropped sessions were dropped
\* without logout, which keeps the counter finite
CanCall == pc = "idle" /\ dropped.imap + dropped.smtp <= MaxDropped

EnterCall(o, lim, addr) ==
    /\ op' = o
    /\ limit' = lim
    /\ to' = addr
    /\ attempt' = 0
    /\ err' = ""
    /\ result' = NoResult
    /\ pc' = "loop"
    /\ obs' = NoObs
    /\ UNCHANGED <<retry_count, retry_delay, imap_conn, smtp_conn, dropped>>

\* mail_read(folder, limit): entry of the call
mail_read(lim) == CanCall /\ EnterCall("read", lim, <<>>)

\* mail_get(email_id): entry of the call
mail_get == CanCall /\ EnterCall("get", 0, <<>>)

\* mail_send(to, subject, body): entry of the call, with the recipient check
mail_send(addr) ==
    /\ CanCall
    /\ IF invalid_email_format(addr)
       THEN /\ op' = "send"
            /\ to' = addr
            /\ attempt' = 0
            /\ err' = ""
            /\ result' = Failure("INVALID_EMAIL_FORMAT")
            /\ pc' = "idle"
            /\ obs' = NoObs
            /\ limit' = 0
            /\ UNCHANGED <<retry_count, retry_delay, imap_conn, smtp_conn, dropped>>
       ELSE EnterCall("send", 0, addr)

\* `for attempt in range(retry_count)` has no iteration left: the function
\* body ends without a return statement
for_exhausted ==
    /\ pc = "loop"
    /\ attempt >= retry_count
    /\ pc' = "idle"
    /\ result' = ReturnedNone
    /\ UNCHANGED <<retry_count, retry_delay, imap_conn, smtp_conn, dropped, op,
                   attempt, limit, to, err, obs>>

\* connect_imap(): IMAP4_SSL(...) then login(...); the slot is assigned as
\* soon as the constructor returns
connect_imap(stage, exc) ==
    /\ obs' = [obs EXCEPT !.attempts = @ + 1, !.connects = @ + 1,
                          !.failed = @ + (IF stage = "ok" THEN 0 ELSE 1),
                          !.cause = IF stage = "ok" THEN @ ELSE exc]
    /\ CASE stage = "open"  -> /\ imap_conn' = imap_conn
                               /\ err' = connect_imap_error(exc)
                               /\ pc' = "except"
         [] stage = "login" -> /\ imap_conn' = MarkFailed(Session(FALSE))
                               /\ err' = connect_imap_error(exc)
                               /\ pc' = "except"
         [] stage = "ok"    -> /\ imap_conn' = Session(TRUE)
                               /\ err' = err
                               /\ pc' = "body"

\* connect_smtp(): SMTP(...), starttls(), login(...)
connect_smtp(stage, exc) ==
    /\ obs' = [obs EXCEPT !.attempts = @ + 1, !.connects = @ + 1,
                          !.failed = @ + (IF stage = "ok" THEN 0 ELSE 1),
                          !.cause = IF stage = "ok" THEN @ ELSE exc]
    /\ CASE stage = "open"  -> /\ smtp_conn' = smtp_conn
                               /\ err' = connect_smtp_error(exc)
                               /\ pc' = "except"
         [] stage \in {"starttls", "login"} ->
                               /\ smtp_conn' = MarkFailed(Session(FALSE))
                               /\ err' = connect_smtp_error(exc)
                               /\ pc' = "except"
         [] stage = "ok"    -> /\ smtp_conn' = Session(TRUE)
                               /\ err' = err
                               /\ pc' = "body"

\* variant that connects at the start of every attempt
ensure_imap_always ==
    /\ pc = "loop"
    /\ op \in {"read", "get"}
    /\ attempt < retry_count
    /\ \E stage \in {"open", "login", "ok"}, exc \in ImapExc :
           /\ (stage = "ok" => exc = "OSError")
           /\ connect_imap(stage, exc)
    /\ UNCHANGED <<retry_count, retry_delay, smtp_conn, dropped, op, attempt,
                   limit, to, result>>

\* top of the try block of mail_read / mail_get: if not self.imap_conn: connect_imap()
ensure_imap ==
    /\ pc = "loop"
    /\ op \in {"read", "get"}
    /\ attempt < retry_count
    /\ IF imap_conn.present
       THEN /\ obs' = [obs EXCEPT !.attempts = @ + 1]
            /\ pc' = "body"
            /\ UNCHANGED <<imap_conn, err>>
       ELSE \E stage \in {"open", "login", "ok"}, exc \in ImapExc :
                /\ (stage = "ok" => exc = "OSError")
                /\ connect_imap(stage, exc)
    /\ UNCHANGED <<retry_count, retry_delay, smtp_conn, dropped, op, attempt,
                   limit, to, result>>

\* top of the try block of mail_send: if not self.smtp_conn: connect_smtp()
ensure_smtp ==
    /\ pc = "loop"
    /\ op = "send"
    /\ attempt < retry_count
    /\ IF smtp_conn.present
       THEN /\ obs' = [obs EXCEPT !.attempts = @ + 1]
            /\ pc' = "body"
            /\ UNCHANGED <<smtp_conn, err>>
       ELSE \E stage \in {"open", "starttls", "login", "ok"}, exc \in SmtpExc :
                /\ (stage = "ok" => exc = "OSError")
                /\ connect_smtp(stage, exc)
    /\ UNCHANGED <<retry_count, retry_delay, imap_conn, dropped, op, attempt,
                   limit, to, result>>

\* variant that raises every error without its tag
RaiseImap_untagged(cause, e) ==
    /\ pc' = "except"
    /\ err' = "Exception"
    /\ imap_conn' = MarkFailed(imap_conn)
    /\ obs' = [obs EXCEPT !.failed = @ + 1, !.cause = cause]
    /\ UNCHANGED result

\* an exception raised inside the try block while the IMAP session is in use
RaiseImap(cause, e) ==
    /\ pc' = "except"
    /\ err' = e
    /\ imap_conn' = MarkFailed(imap_conn)
    /\ obs' = [obs EXCEPT !.failed = @ + 1, !.cause = cause]
    /\ UNCHANGED result

\* variant that drops the session when it returns
ReturnEmails_drop(emails, ids, outs) ==
    /\ pc' = "idle"
    /\ result' = Success(emails)
    /\ obs' = [obs EXCEPT !.message_ids = ids, !.outcomes = outs,
                          !.fetches = @ + Len(outs)]
    /\ imap_conn' = None
    /\ UNCHANGED err

\* return {"success": True, "emails": emails, "count": len(emails)}
ReturnEmails(emails, ids, outs) ==
    /\ pc' = "idle"
    /\ result' = Success(emails)
    /\ obs' = [obs EXCEPT !.message_ids = ids, !.outcomes = outs,
                          !.fetches = @ + Len(outs)]
    /\ UNCHANGED <<imap_conn, err>>

\* try block of mail_read after the session is ensured: select, search,
\* selection of the latest ids, the per-message fetch loop, return
mail_read_body ==
    /\ pc = "body"
    /\ op = "read"
    /\ \E sel \in Status, srch \in Status, n \in 0..MaxMsgs :
         IF sel = "raise" THEN RaiseImap("select raised", "Exception")
         ELSE IF sel # "OK" THEN RaiseImap("select status", "FOLDER_NOT_FOUND")
         ELSE IF srch = "raise" THEN RaiseImap("search raised", "Exception")
         ELSE IF srch # "OK" THEN RaiseImap("search status", "SEARCH_FAILED")
         ELSE LET message_ids == [i \in 1..n |-> i]
              IN  IF message_ids = <<>>
                  THEN ReturnEmails(<<>>, message_ids, <<>>)
                  ELSE LET latest == latest_ids(message_ids, limit)
                       IN  \E outs \in [1..Len(latest) -> Status] :
                             ReturnEmails(fetch_loop(latest, outs, 1, <<>>),
                                          message_ids, outs)
    /\ UNCHANGED <<retry_count, retry_delay, smtp_conn, dropped, op, attempt, limit, to>>

\* try block of mail_get after the session is ensured: select('INBOX') (its
\* status is ignored), fetch, decoding, return
mail_get_body ==
    /\ pc = "body"
    /\ op = "get"
    /\ \E sel \in {"done", "raise"}, fetch \in Status, decode \in {"done", "raise"} :
         IF sel = "raise" THEN RaiseImap("select raised", "Exception")
         ELSE IF fetch = "raise" THEN RaiseImap("fetch raised", "Exception")
         ELSE IF fetch # "OK" THEN RaiseImap("fetch status", "EMAIL_NOT_FOUND")
         ELSE IF decode = "raise" THEN RaiseImap("decode raised", "Exception")
         ELSE /\ pc' = "idle"
              /\ result' = Success(<<>>)
              /\ obs' = [obs EXCEPT !.fetches = @ + 1]
              /\ UNCHANGED <<imap_conn, err>>
    /\ UNCHANGED <<retry_count, retry_delay, smtp_conn, dropped, op, attempt, limit, to>>

\* variant that calls sendmail twice in an attempt
mail_send_body_twice ==
    /\ pc = "body"
    /\ op = "send"
    /\ \E sent \in {"done", "raise"} :
         /\ obs' = [obs EXCEPT !.sendmails = @ + 2,
                               !.failed = @ + (IF sent = "raise" THEN 1 ELSE 0),
                               !.cause = IF sent = "raise" THEN "sendmail raised" ELSE @]
         /\ IF sent = "raise"
            THEN /\ pc' = "except"
                 /\ err' = "Exception"
                 /\ smtp_conn' = MarkFailed(smtp_conn)
                 /\ UNCHANGED result
            ELSE /\ pc' = "idle"
                 /\ result' = Success(<<>>)
                 /\ UNCHANGED <<smtp_conn, err>>
    /\ UNCHANGED <<retry_count, retry_delay, imap_conn, dropped, op, attempt, limit, to>>

\* try block of mail_send after the session is ensured: build the message,
\* sendmail, return
mail_send_body ==
    /\ pc = "body"
    /\ op = "send"
    /\ \E sent \in {"done", "raise"} :
         /\ obs' = [obs EXCEPT !.sendmails = @ + 1,
                               !.failed = @ + (IF sent = "raise" THEN 1 ELSE 0),
                               !.cause = IF sent = "raise" THEN "sendmail raised" ELSE @]
         /\ IF sent = "raise"
            THEN /\ pc' = "except"
                 /\ err' = "Exception"
                 /\ smtp_conn' = MarkFailed(smtp_conn)
                 /\ UNCHANGED result
            ELSE /\ pc' = "idle"
                 /\ result' = Success(<<>>)
                 /\ UNCHANGED <<smtp_conn, err>>
    /\ UNCHANGED <<retry_count, retry_delay, imap_conn, dropped, op, attempt, limit, to>>

\* except Exception as e: of mail_read and of mail_get (the two handlers
\* differ only in the log text and the keys of the failure record)
ImapExcept ==
    /\ pc = "except"
    /\ IF HasRetriesLeft(attempt, retry_count)
       THEN /\ obs' = [obs EXCEPT !.sleeps = time_sleep(@, retry_delay), !.cause = ""]
            /\ imap_conn' = None
            /\ dropped' = [dropped EXCEPT !.imap = @ + (IF imap_conn.present THEN 1 ELSE 0)]
            /\ attempt' = attempt + 1
            /\ pc' = "loop"
            /\ UNCHANGED result
       ELSE /\ result' = Failure(err)
            /\ pc' = "idle"
            /\ UNCHANGED <<imap_conn, dropped, attempt, obs>>
    /\ err' = ""
    /\ UNCHANGED <<retry_count, retry_delay, smtp_conn, op, limit, to>>

mail_read_except == op = "read" /\ ImapExcept

mail_get_except == op = "get" /\ ImapExcept

\* except Exception as e: of mail_send
mail_send_except ==
    /\ pc = "except"
    /\ op = "send"
    /\ IF HasRetriesLeft(attempt, retry_count)
       THEN /\ obs' = [obs EXCEPT !.sleeps = time_sleep(@, retry_delay), !.cause = ""]
            /\ smtp_conn' = None
            /\ dropped' = [dropped EXCEPT !.smtp = @ + (IF smtp_conn.present THEN 1 ELSE 0)]
            /\ attempt' = attempt + 1
            /\ pc' = "loop"
            /\ UNCHANGED result
       ELSE /\ result' = Failure(err)
            /\ pc' = "idle"
            /\ UNCHANGED <<smtp_conn, dropped, attempt, obs>>
    /\ err' = ""
    /\ UNCHANGED <<retry_count, retry_delay, imap_conn, op, limit, to>>

\* variant that calls close() and logout() without testing the slot
close_connections_unguarded ==
    /\ pc = "idle"
    /\ \E close \in {"done", "raise"}, logout \in {"done", "raise"},
          quit \in {"done", "raise"} :
         LET imap_closed == close = "done" /\ logout = "done"
             imap_calls == IF close = "raise" THEN 1 ELSE 2
             smtp_reached == imap_closed
             smtp_closed == smtp_reached /\ smtp_conn.present /\ quit = "done"
             smtp_calls == IF smtp_reached /\ smtp_conn.present THEN 1 ELSE 0
         IN  /\ imap_conn' = IF imap_closed THEN None ELSE imap_conn
             /\ smtp_conn' = IF smtp_closed THEN None ELSE smtp_conn
             /\ obs' = [NoObs EXCEPT !.releases = imap_calls + smtp_calls]
    /\ op' = "close"
    /\ result' = ReturnedNone
    /\ attempt' = 0
    /\ limit' = 0
    /\ to' = <<>>
    /\ UNCHANGED <<retry_count, retry_delay, dropped, pc, err>>

\* close_connections(): one try block around close/logout/quit; the first
\* call that raises ends the block, the handler only logs.  (The locals of
\* the operation that ran before no longer exist: attempt, limit, to.)
close_connections ==
    /\ pc = "idle"
    /\ \E close \in {"done", "raise"}, logout \in {"done", "raise"},
          quit \in {"done", "raise"} :
         LET imap_closed == imap_conn.present /\ close = "done" /\ logout = "done"
             imap_calls == IF ~imap_conn.present THEN 0
                           ELSE IF close = "raise" THEN 1 ELSE 2
             smtp_reached == ~imap_conn.present \/ imap_closed
             smtp_closed == smtp_reached /\ smtp_conn.present /\ quit = "done"
             smtp_calls == IF smtp_reached /\ smtp_conn.present THEN 1 ELSE 0
         IN  /\ imap_conn' = IF imap_closed THEN None ELSE imap_conn
             /\ smtp_conn' = IF smtp_closed THEN None ELSE smtp_conn
             /\ obs' = [NoObs EXCEPT !.releases = imap_calls + smtp_calls]
    /\ op' = "close"
    /\ result' = ReturnedNone
    /\ attempt' = 0
    /\ limit' = 0
    /\ to' = <<>>
    /\ UNCHANGED <<retry_count, retry_delay, dropped, pc, err>>

Limits == 0..MaxLimit

Next ==
    \/ (\E lim \in Limits : mail_read(lim)) /\ UNCHANGED <<bodyVars, cliVars>>
    \/ mail_get /\ UNCHANGED <<bodyVars, cliVars>>
    \/ (\E addr \in Recipients : mail_send(addr)) /\ UNCHANGED <<bodyVars, cliVars>>
    \/ for_exhausted /\ UNCHANGED <<bodyVars, cliVars>>
    \/ ensure_imap /\ UNCHANGED <<bodyVars, cliVars>>
    \/ ensure_smtp /\ UNCHANGED <<bodyVars, cliVars>>
    \/ mail_read_body /\ UNCHANGED <<bodyVars, cliVars>>
    \/ mail_get_body /\ UNCHANGED <<bodyVars, cliVars>>
    \/ mail_send_body /\ UNCHANGED <<bodyVars, cliVars>>
    \/ mail_read_except /\ UNCHANGED <<bodyVars, cliVars>>
    \/ mail_get_except /\ UNCHANGED <<bodyVars, cliVars>>
    \/ mail_send_except /\ UNCHANGED <<bodyVars, cliVars>>
    \/ close_connections /\ UNCHANGED <<bodyVars, cliVars>>

Spec == Init /\ [][Next]_vars

----------------------------------------------------------------------------
(* Body extraction on its own: a message and a max_length are given, and   *)
(* the two functions are applied to it (mail_read applies                  *)
(* extract_body_summary to each fetched message, mail_get applies          *)
(* extract_full_body).  The tool itself does not move.                     *)
InitBody ==
    /\ retry_count = 1
    /\ retry_delay = 0
    /\ imap_conn = None
    /\ smtp_conn = None
    /\ dropped = [imap |-> 0, smtp |-> 0]
    /\ pc = "idle"
    /\ op = "none"
    /\ attempt = 0
    /\ limit = 0
    /\ to = <<>>
    /\ err = ""
    /\ result = NoResult
    /\ obs = NoObs
    /\ email_message \in Messages
    /\ max_length \in 1..MaxLength
    /\ body_summary = NotExtracted
    /\ full_body = NotExtracted
    /\ cli = "library"
    /\ argv = NoArgv
    /\ tool = TRUE
    /\ path = ""

\* "body_summary": self.extract_body_summary(email_message)
read_body_summary ==
    /\ email_message # NoMessage
    /\ body_summary = NotExtracted
    /\ body_summary' = extract_body_summary(email_message, max_length)
    /\ UNCHANGED <<toolVars, cliVars, email_message, max_length, full_body>>

\* "body": self.extract_full_body(email_message)
get_full_body ==
    /\ email_message # NoMessage
    /\ full_body = NotExtracted
    /\ full_body' = extract_full_body(email_message)
    /\ UNCHANGED <<toolVars, cliVars, email_message, max_length, body_summary>>

NextBody == read_body_summary \/ get_full_body

SpecBody == InitBody /\ [][NextBody]_vars

----------------------------------------------------------------------------
(* main(): one command-line invocation.  The tool's variables hold the     *)
(* state of the object `tool` once MCPMailTool() has returned.             *)

\* limit = int(sys.argv[3]) if len(sys.argv) > 3 else 10
DefaultLimit == 10

Commands == {"read", "send", "get", "bogus"}

\* sys.argv as far as main() looks at it: [0] is the script, [1] the command
Argvs == {[command |-> "none", argc |-> 1]} \cup
         {[command |-> c, argc |-> n] : c \in Commands, n \in 2..5}

InitCli ==
    /\ retry_count \in 0..MaxRetry
    /\ retry_delay \in Delays
    /\ imap_conn = None
    /\ smtp_conn = None
    /\ dropped = [imap |-> 0, smtp |-> 0]
    /\ pc = "idle"
    /\ op = "none"
    /\ attempt = 0
    /\ limit = 0
    /\ to = <<>>
    /\ err = ""
    /\ result = NoResult
    /\ obs = NoObs
    /\ email_message = NoMessage
    /\ max_length = 0
    /\ body_summary = NotExtracted
    /\ full_body = NotExtracted
    /\ cli = "start"
    /\ argv \in Argvs
    /\ tool = FALSE
    /\ path = ""

\* main() leaves the try block without a call running
LeaveTry(how) ==
    /\ cli' = "finally"
    /\ path' = how
    /\ UNCHANGED <<toolVars, bodyVars, argv, tool>>

\* a call of the tool has started
Called ==
    /\ cli' = "call"
    /\ UNCHANGED <<bodyVars, argv, tool, path>>

\* if len(sys.argv) < 2: print the usage and return (before the try block)
main_usage ==
    /\ cli = "start"
    /\ argv.argc < 2
    /\ cli' = "exit"
    /\ path' = "usage"
    /\ UNCHANGED <<toolVars, bodyVars, argv, tool>>

\* tool = MCPMailTool(): load_config returns, or raises CONFIGURATION_ERROR
\* and `tool` is never bound
main_construct ==
    /\ cli = "start"
    /\ argv.argc >= 2
    /\ \E loaded \in BOOLEAN :
         IF loaded
         THEN /\ tool' = TRUE
              /\ cli' = "dispatch"
              /\ UNCHANGED <<toolVars, bodyVars, argv, path>>
         ELSE LeaveTry("configuration error")

\* command == "read": int(sys.argv[3]) may raise ValueError
main_read ==
    /\ cli = "dispatch"
    /\ argv.command = "read"
    /\ \/ argv.argc > 3 /\ LeaveTry("exception")
       \/ argv.argc > 3 /\ (\E lim \in Limits : mail_read(lim)) /\ Called
       \/ argv.argc <= 3 /\ mail_read(DefaultLimit) /\ Called

\* command == "send"
main_send ==
    /\ cli = "dispatch"
    /\ argv.command = "send"
    /\ IF argv.argc < 5
       THEN LeaveTry("missing arguments")
       ELSE (\E addr \in Recipients : mail_send(addr)) /\ Called

\* command == "get"
main_get ==
    /\ cli = "dispatch"
    /\ argv.command = "get"
    /\ IF argv.argc < 3
       THEN LeaveTry("missing arguments")
       ELSE mail_get /\ Called

\* else: print the unknown command
main_unknown ==
    /\ cli = "dispatch"
    /\ argv.command \notin {"read", "send", "get"}
    /\ LeaveTry("unknown command")

\* a step of the call that main() is waiting for
Running == cli = "call" /\ UNCHANGED <<bodyVars, cliVars>>

\* print(json.dumps(result, ...)) once the call has returned
main_print ==
    /\ cli = "call"
    /\ pc = "idle"
    /\ LeaveTry("returned")

\* variant whose finally block does nothing
main_finally_skipped ==
    /\ cli = "finally"
    /\ cli' = "exit"
    /\ UNCHANGED <<toolVars, bodyVars, argv, tool, path>>

\* finally: if 'tool' in locals(): tool.close_connections()
main_finally ==
    /\ cli = "finally"
    /\ IF tool THEN close_connections ELSE UNCHANGED toolVars
    /\ cli' = "exit"
    /\ UNCHANGED <<bodyVars, argv, tool, path>>

NextCli ==
    \/ main_usage
    \/ main_construct
    \/ main_read
    \/ main_send
    \/ main_get
    \/ main_unknown
    \/ for_exhausted /\ Running
    \/ ensure_imap /\ Running
    \/ ensure_smtp /\ Running
    \/ mail_read_body /\ Running
    \/ mail_get_body /\ Running
    \/ mail_send_body /\ Running
    \/ mail_read_except /\ Running
    \/ mail_get_except /\ Running
    \/ mail_send_except /\ Running
    \/ main_print
    \/ main_finally

SpecCli == InitCli /\ [][NextCli]_vars

----------------------------------------------------------------------------
(* Properties *)

Ops == {"read", "get", "send"}
Returned == pc = "idle" /\ op \in Ops
\* the call went through the retry loop and every attempt it made raised
AllAttemptsFailed == obs.attempts >= 1 /\ obs.failed = obs.attempts
Repeat(n, d) == [i \in 1..n |-> d]

\* C1: with retry_count >= 1, a call of mail_read / mail_get / mail_send
\* (valid recipient) in which every attempt fails makes exactly retry_count
\* attempts and never more, sleeps retry_delay exactly retry_count - 1 times
\* (not after the last failure) and returns a failure; the attempt counter
\* starts at zero in every call.
C1_ExhaustedAfterRetryCount ==
    /\ op \in Ops => obs.attempts <= retry_count
    /\ (pc \in {"loop", "body", "except"}) =>
           obs.attempts = attempt + (IF pc = "loop" THEN 0 ELSE 1)
    /\ (Returned /\ retry_count >= 1 /\ AllAttemptsFailed) =>
           /\ result.kind = "failure"
           /\ obs.attempts = retry_count
           /\ obs.sleeps = Repeat(retry_count - 1, retry_delay)

\* a send that exhausted its three attempts on a tool whose earlier IMAP
\* call had exhausted its own
C1_Witness ==
    /\ Returned /\ op = "send" /\ retry_count = 3
    /\ AllAttemptsFailed /\ result.kind = "failure"
    /\ obs.attempts = 3 /\ Len(obs.sleeps) = 2
    /\ imap_conn.present /\ imap_conn.failed

\* C2: with retry_count >= 1, a call whose first retry_count - 1 attempts fail
\* and whose next attempt succeeds returns success on attempt number
\* retry_count after exactly retry_count - 1 sleeps of retry_delay, one sleep
\* after each failed attempt and before the next attempt.
C2_SucceedsOnFinalAttempt ==
    /\ (pc \in {"loop", "body", "except"}) =>
           obs.sleeps = Repeat(attempt, retry_delay)
    /\ (Returned /\ retry_count >= 1 /\ obs.attempts >= 1
          /\ obs.failed = retry_count - 1 /\ obs.failed < obs.attempts) =>
           /\ result.kind = "success"
           /\ obs.attempts = retry_count
           /\ obs.sleeps = Repeat(retry_count - 1, retry_delay)

\* a read that failed twice and succeeded on the third attempt
C2_Witness ==
    /\ Returned /\ op = "read" /\ retry_count = 3
    /\ result.kind = "success" /\ obs.failed = 2 /\ obs.attempts = 3
    /\ obs.sleeps = <<retry_delay, retry_delay>>

\* the slot an operation works on
UsedConn == IF op = "send" THEN smtp_conn ELSE imap_conn

\* C3: whenever an attempt fails, the session slot of its protocol is absent
\* before the session can be used again, also after the last attempt of a
\* call: no attempt issues protocol commands on a session that an earlier
\* failed attempt used.
C3_NoReuseAfterFailure ==
    (pc = "body" /\ op \in Ops) => ~UsedConn.failed

\* sessions whose connection was opened and that were not logged out / quit
LiveImap == (IF imap_conn.present THEN 1 ELSE 0) + dropped.imap
LiveSmtp == (IF smtp_conn.present THEN 1 ELSE 0) + dropped.smtp

\* C4: in every reachable state at most one IMAP session and at most one
\* SMTP session is live (opened and not yet logged out or quit).
C4_AtMostOneLiveSession == LiveImap <= 1 /\ LiveSmtp <= 1

Usable(conn) == ~conn.present \/ conn.authed

\* C5: whenever an operation returns and at the start of every attempt, each
\* slot is absent or holds a connected and authenticated session.
C5_SlotAbsentOrAuthenticated ==
    (pc \in {"idle", "loop"}) => (Usable(imap_conn) /\ Usable(smtp_conn))

\* C6: when close_connections returns, both session slots are absent,
\* whatever close / logout / quit did.
C6_CloseClearsBothSlots ==
    (pc = "idle" /\ op = "close") => (~imap_conn.present /\ ~smtp_conn.present)

\* C7: for every retry_count >= 0, every call of mail_read / mail_get /
\* mail_send returns a success record or a failure record.
C7_AlwaysOperationResult ==
    Returned => result.kind \in {"success", "failure"}

\* what the claim calls an invalid recipient: no '@', or no '.' in the text
\* after the first '@'
AfterAt(addr) ==
    LET i == CHOOSE k \in 1..Len(addr) : addr[k] = "@" /\ \A j \in 1..(k - 1) : addr[j] # "@"
    IN  SubSeq(addr, i + 1, Len(addr))
NoAtOrNoDot(addr) ==
    (\A k \in 1..Len(addr) : addr[k] # "@")
        \/ (\A k \in 1..Len(AfterAt(addr)) : AfterAt(addr)[k] # ".")

\* C8: mail_send with a recipient without '@', or without '.' after the '@',
\* returns the INVALID_EMAIL_FORMAT failure at once: no connect, no sendmail,
\* no sleep, no attempt, and both session slots keep their value.
C8_InvalidRecipientRejected ==
    [][(pc = "idle" /\ op' = "send" /\ NoAtOrNoDot(to')) =>
          /\ pc' = "idle"
          /\ result' = Failure("INVALID_EMAIL_FORMAT")
          /\ imap_conn' = imap_conn
          /\ smtp_conn' = smtp_conn
          /\ dropped' = dropped
          /\ obs'.attempts = 0 /\ obs'.connects = 0
          /\ obs'.sendmails = 0 /\ obs'.sleeps = <<>>]_vars

\* a rejected send on a tool that holds both sessions
C8_Witness ==
    /\ Returned /\ op = "send"
    /\ result = Failure("INVALID_EMAIL_FORMAT")
    /\ to = <<"@", "a">>
    /\ imap_conn.present /\ smtp_conn.present
    /\ obs.attempts = 0 /\ obs.connects = 0

Min(a, b) == IF a <= b THEN a ELSE b
AllFetched == \A i \in 1..Len(obs.outcomes) : obs.outcomes[i] = "OK"

\* C9: for every limit >= 0 and N >= 1 search results, when every fetch
\* succeeds mail_read returns min(limit, N) summaries: the last min(limit, N)
\* ids of the search result, last one first.
C9_LastLimitNewestFirst ==
    (Returned /\ op = "read" /\ result.kind = "success"
       /\ Len(obs.message_ids) >= 1 /\ AllFetched) =>
        LET N == Len(obs.message_ids)
            k == Min(limit, N)
        IN  result.emails = [i \in 1..k |-> obs.message_ids[N + 1 - i]]

\* positions of the selected messages that were processed successfully
Processed == {i \in 1..Len(obs.outcomes) : obs.outcomes[i] = "OK"}
NthProcessed(j) == CHOOSE i \in Processed : Cardinality({k \in Processed : k < i}) = j - 1

\* C10: once select and search succeeded in mail_read, a message whose fetch
\* or processing fails is omitted and nothing else changes: the call returns
\* success in that attempt, the other messages keep their order, and count =
\* number of entries in emails = number of messages processed successfully.
C10_PerMessageFailuresSkipped ==
    (op = "read" /\ obs.message_ids # <<>>) =>
        LET latest == latest_ids(obs.message_ids, limit)
        IN  /\ pc = "idle" /\ result.kind = "success"
            /\ obs.failed = obs.attempts - 1
            /\ Len(obs.outcomes) = Len(latest)
            /\ result.count = Len(result.emails)
            /\ result.count = Cardinality(Processed)
            /\ \A j \in 1..Len(result.emails) : result.emails[j] = latest[NthProcessed(j)]

\* a read of three messages whose middle message failed
C10_Witness ==
    /\ Returned /\ op = "read" /\ result.kind = "success"
    /\ obs.message_ids = <<1, 2, 3>> /\ limit = 3
    /\ obs.outcomes = <<"OK", "raise", "OK">>
    /\ result.emails = <<3, 1>> /\ result.count = 2

\* C16: a mail_read attempt whose search returns zero message identifiers
\* returns success with an empty emails list and count = 0 in that attempt:
\* no fetch, no sleep and no further attempt after the search, and the IMAP
\* session stays in its slot.
C16_EmptyFolderSucceeds ==
    [][(pc = "body" /\ op = "read" /\ result'.kind = "success"
          /\ obs'.message_ids = <<>>) =>
          /\ pc' = "idle"
          /\ result'.emails = <<>> /\ result'.count = 0
          /\ obs'.fetches = 0
          /\ obs'.sleeps = obs.sleeps /\ obs'.attempts = obs.attempts
          /\ attempt' = attempt
          /\ imap_conn.present /\ imap_conn' = imap_conn]_vars

\* an empty folder read at the first attempt
C16_Witness ==
    /\ Returned /\ op = "read" /\ result = Success(<<>>)
    /\ obs.message_ids = <<>> /\ obs.attempts = 1 /\ obs.failed = 0
    /\ obs.fetches = 0 /\ obs.sleeps = <<>> /\ imap_conn.present

\* C17: close_connections on a tool whose two slots are absent (in
\* particular one on which no session was ever opened) issues no close,
\* logout or quit, returns normally and leaves both slots absent.
C17_CloseWithNothingOpen ==
    [][(pc = "idle" /\ op' = "close" /\ ~imap_conn.present /\ ~smtp_conn.present) =>
          /\ obs'.releases = 0
          /\ imap_conn' = None /\ smtp_conn' = None
          /\ pc' = "idle" /\ result' = ReturnedNone]_vars

\* close_connections has returned on a tool without any session
C17_Witness ==
    /\ pc = "idle" /\ op = "close" /\ obs.releases = 0
    /\ imap_conn = None /\ smtp_conn = None
    /\ dropped.imap = 0 /\ dropped.smtp = 0

\* the slot of the other protocol
OtherConn == IF op = "send" THEN imap_conn ELSE smtp_conn

\* C18: connect_imap / connect_smtp is called only at the start of an attempt
\* that finds its slot absent, at most once per attempt; an attempt that
\* finds a session in the slot uses it without connecting; a call that
\* returns success leaves the session it used in the slot, and a running
\* call never touches the slot of the other protocol.
C18_LazyConnectAndKeep ==
    [][/\ (op' \in Ops => obs'.connects <= obs'.attempts)
       /\ (obs'.connects > obs.connects =>
              /\ pc = "loop" /\ ~UsedConn.present
              /\ obs'.connects = obs.connects + 1
              /\ obs'.attempts = obs.attempts + 1)
       /\ (pc = "loop" /\ attempt < retry_count /\ UsedConn.present =>
              /\ pc' = "body"
              /\ UsedConn' = UsedConn
              /\ obs'.connects = obs.connects)
       /\ (pc = "body" /\ result'.kind = "success" =>
              UsedConn.present /\ UsedConn' = UsedConn)
       /\ (pc # "idle" => OtherConn' = OtherConn)]_vars

\* the first attempt of a call is in its try block on the session that an
\* earlier call left in the slot
C18_Witness ==
    /\ pc = "body" /\ attempt = 0 /\ obs.attempts = 1 /\ obs.connects = 0
    /\ UsedConn.present /\ UsedConn.authed /\ ~UsedConn.failed

\* the error string of the claim for what made the last attempt fail
TagOf(cause) ==
    CASE cause = "select status" /\ op = "read" -> {"FOLDER_NOT_FOUND"}
      [] cause = "fetch status" /\ op = "get" -> {"EMAIL_NOT_FOUND"}
      [] cause \in ImapExc /\ op \in {"read", "get"} ->
             {"AUTHENTICATION_FAILED", "IMAP_CONNECTION_FAILED", "NETWORK_ERROR"}
      [] cause \in SmtpExc /\ op = "send" ->
             {"AUTHENTICATION_FAILED", "SMTP_CONNECTION_FAILED", "NETWORK_ERROR"}
      [] OTHER -> {"Exception", "SEARCH_FAILED"}

\* C19: a call in which all attempts failed returns the error of its last
\* attempt: FOLDER_NOT_FOUND when select of mail_read returned a non-OK
\* status, EMAIL_NOT_FOUND when fetch of mail_get returned a non-OK status,
\* and a connection classification tag of the protocol when session
\* establishment failed.
C19_LastErrorReturned ==
    /\ (pc = "except" => obs.cause # "" /\ err \in TagOf(obs.cause))
    /\ (pc \in {"loop", "body"} => obs.cause = "")
    /\ (Returned /\ result.kind = "failure" /\ obs.attempts >= 1) =>
           /\ AllAttemptsFailed
           /\ obs.cause # "" /\ result.error \in TagOf(obs.cause)

\* a read whose first attempt failed while connecting and whose second and
\* last attempt connected and got a non-OK status from select
C19_Witness ==
    /\ Returned /\ op = "read" /\ retry_count = 2
    /\ result = Failure("FOLDER_NOT_FOUND") /\ obs.cause = "select status"
    /\ obs.attempts = 2 /\ obs.connects = 2 /\ obs.failed = 2
    /\ dropped.imap = 0

\* C20: in a mail_send call sendmail is invoked at most once per attempt and
\* at most retry_count times; a sendmail that returns without error ends the
\* call with success at once, so a successful call contains exactly one
\* successful sendmail, as its last step.
C20_SendmailOncePerAttempt ==
    [][/\ (op' = "send" =>
              /\ obs'.sendmails <= obs'.attempts
              /\ obs'.attempts <= retry_count)
       /\ (obs'.sendmails > obs.sendmails =>
              /\ pc = "body" /\ op = "send"
              /\ obs'.sendmails = obs.sendmails + 1
              /\ obs.sendmails <= obs.failed
              /\ (obs'.failed = obs.failed =>
                     pc' = "idle" /\ result'.kind = "success"))
       /\ (op = "send" /\ pc # "idle" /\ result'.kind = "success" =>
              /\ obs'.sendmails = obs.sendmails + 1
              /\ obs'.failed = obs.failed /\ pc' = "idle")]_vars

\* a send that succeeded at its third attempt after two sendmail errors
C20_Witness ==
    /\ Returned /\ op = "send" /\ result.kind = "success" /\ retry_count = 3
    /\ obs.attempts = 3 /\ obs.sendmails = 3 /\ obs.failed = 2

----------------------------------------------------------------------------
(* Properties of body extraction (SpecBody) *)

parts == email_message.parts
PartsOfType(ct) == {i \in 1..Len(parts) : parts[i].content_type = ct}
First(S) == CHOOSE i \in S : \A j \in S : i <= j
SummaryDone == body_summary # NotExtracted
FullDone == full_body # NotExtracted

\* the text between the first and the last character that is not whitespace
Trimmed(text) ==
    LET Ink == {i \in 1..Len(text) : text[i] \notin Whitespace}
    IN  IF Ink = {} THEN <<>>
        ELSE SubSeq(text, First(Ink), CHOOSE i \in Ink : \A j \in Ink : j <= i)

\* trimmed, newlines and carriage returns turned into spaces
Normalised(text) ==
    [i \in 1..Len(Trimmed(text)) |->
        IF Trimmed(text)[i] \in {"\n", "\r"} THEN " " ELSE Trimmed(text)[i]]

\* what the claims say the summary of a body is
SummaryOf(text) ==
    IF Len(Normalised(text)) <= max_length THEN Normalised(text)
    ELSE SubSeq(Normalised(text), 1, max_length) \o <<".", ".", ".">>

\* HTML parts that decode and have text left once tags and margins are removed
HtmlWithText ==
    {i \in PartsOfType("text/html") :
        parts[i].charset_ok /\ Trimmed(re_sub_tags(parts[i].payload)) # <<>>}

\* C11: for a multipart message with no text/plain part and at least one
\* text/html part with non-empty text, both variants return the payload of
\* the first such part with the tags removed (the summary normalised and
\* truncated), and neither returns the 'no content' placeholder.
C11_HtmlOnlyBothVariants ==
    (email_message.multipart /\ PartsOfType("text/plain") = {} /\ HtmlWithText # {}) =>
        LET text == re_sub_tags(parts[First(HtmlWithText)].payload)
        IN  /\ SummaryDone => (body_summary = SummaryOf(text) /\ body_summary # NoBody)
            /\ FullDone => (full_body = Trimmed(text) /\ full_body # NoBody)

Both ==
    /\ email_message.multipart
    /\ PartsOfType("text/plain") # {}
    /\ PartsOfType("text/html") # {}
FirstPlain == parts[First(PartsOfType("text/plain"))]

\* an HTML part before the first text/plain part that the full-body walk
\* decodes (no earlier HTML part left a body) and that does not decode
HtmlRaisesBeforePlain ==
    \E j \in PartsOfType("text/html") :
        /\ j < First(PartsOfType("text/plain"))
        /\ ~parts[j].charset_ok
        /\ \A k \in PartsOfType("text/html") :
               k < j => (parts[k].charset_ok /\ re_sub_tags(parts[k].payload) = <<>>)

\* C14 as stated: for a multipart message with a text/plain and a text/html
\* part, in either order, both variants return the content of the first
\* text/plain part (trimmed; the summary normalised and truncated).
C14_PlainContentAsStated ==
    Both => /\ SummaryDone => body_summary = SummaryOf(FirstPlain.payload)
            /\ FullDone => full_body = Trimmed(FirstPlain.payload)

\* C14, amended: for such a message both variants return the content of the
\* first text/plain part (trimmed; the summary normalised and truncated),
\* never HTML-derived content, and nothing after that part matters; but the
\* 'no content' placeholder is returned when that content is empty after
\* trimming, and the 'parse failed' placeholder when the text/plain part
\* does not decode or, in the full-body variant, when an HTML part examined
\* before it does not decode.
C14_PlainPreferred ==
    Both => /\ SummaryDone =>
                 body_summary = IF ~FirstPlain.charset_ok THEN ParseFailed
                                ELSE IF Trimmed(FirstPlain.payload) = <<>> THEN NoBody
                                ELSE SummaryOf(FirstPlain.payload)
            /\ FullDone =>
                 full_body = IF ~FirstPlain.charset_ok \/ HtmlRaisesBeforePlain
                             THEN ParseFailed
                             ELSE IF Trimmed(FirstPlain.payload) = <<>> THEN NoBody
                             ELSE Trimmed(FirstPlain.payload)

\* an HTML part with text comes first, the text/plain part second, and both
\* variants returned the plain text
C14_Witness ==
    /\ parts = <<Part("text/html", <<"<", "a", ">", "a", "\n">>, TRUE),
                 Part("text/plain", <<"a">>, TRUE)>>
    /\ email_message.multipart
    /\ body_summary = <<"a">> /\ full_body = <<"a">>

\* messages whose body decodes: a single-part message, or a multipart one
\* with a text/plain part, in which every part decodes
DecodableBody ==
    /\ email_message # NoMessage
    /\ \A i \in 1..Len(parts) : parts[i].charset_ok
    /\ email_message.multipart => PartsOfType("text/plain") # {}
TheBody == IF email_message.multipart THEN FirstPlain.payload ELSE parts[1].payload

\* C15 as stated: for every decodable body the summary is the trimmed body
\* with newlines and carriage returns replaced by spaces when that has at
\* most max_length characters, else its first max_length characters followed
\* by '...'; the full body is the whole trimmed text.
C15_SummaryAndFullAsStated ==
    DecodableBody =>
        /\ SummaryDone => body_summary = SummaryOf(TheBody)
        /\ FullDone => full_body = Trimmed(TheBody)

\* C15, amended: the same for every decodable body that is not empty after
\* trimming (the summary then has at most max_length + 3 characters and no
\* newline or carriage return, the full body keeps its inner newlines);
\* a body that is empty after trimming gives the 'no content' placeholder on
\* both paths.
C15_SummaryTruncatedFullWhole ==
    DecodableBody =>
        /\ SummaryDone =>
              IF Trimmed(TheBody) = <<>> THEN body_summary = NoBody
              ELSE /\ body_summary = SummaryOf(TheBody)
                   /\ Len(body_summary) <= max_length + 3
                   /\ \A i \in 1..Len(body_summary) : body_summary[i] \notin {"\n", "\r"}
        /\ FullDone =>
              IF Trimmed(TheBody) = <<>> THEN full_body = NoBody
              ELSE full_body = Trimmed(TheBody)

\* a four-character body with an inner newline, cut to two characters and
\* the marker in the summary, whole in the full body
C15_Witness ==
    /\ ~email_message.multipart /\ max_length = 2
    /\ parts[1].payload = <<" ", "a", "\n", "a">>
    /\ body_summary = <<"a", " ", ".", ".", ".">>
    /\ full_body = <<"a", "\n", "a">>

----------------------------------------------------------------------------
(* Properties of main() (SpecCli) *)

Exited == cli = "exit"
NamesCommand == argv.argc >= 2
\* close_connections was the last thing the tool did
CloseCalled == op = "close"

\* C12 as stated: every invocation that names a command has called
\* close_connections when it exits, on every exit path, the configuration
\* error included.
C12_CloseOnEveryExitAsStated ==
    (Exited /\ NamesCommand) => CloseCalled

\* C12, amended: every invocation that names a command and whose tool was
\* constructed has called close_connections when it exits, whether the
\* command returned, returned early on missing arguments, was unknown or
\* raised; when MCPMailTool() fails with a configuration error no tool
\* exists and close_connections is not called.
C12_CloseWhenToolConstructed ==
    /\ (Exited /\ NamesCommand /\ tool) =>
          /\ CloseCalled
          /\ path \in {"returned", "missing arguments", "unknown command", "exception"}
    /\ (Exited /\ NamesCommand /\ ~tool) =>
          /\ ~CloseCalled
          /\ path = "configuration error"
    /\ (cli \in {"dispatch", "call"} => tool)

\* a send without its arguments returned early and the tool was closed
C12_Witness ==
    /\ Exited /\ argv = [command |-> "send", argc |-> 3]
    /\ path = "missing arguments" /\ tool /\ CloseCalled

\* C13: when an invocation ends, every session opened during it, those
\* discarded by a retry included, was logged out or quit or at least had its
\* release attempted.
C13_EverySessionReleased ==
    Exited =>
        /\ dropped.imap = 0 /\ dropped.smtp = 0
        /\ (imap_conn.present \/ smtp_conn.present) => obs.releases >= 1

====
